---- MODULE Spec2Model ----
(***************************************************************************)
(* A model of the toolbox package (src/tool.go): the multipart upload      *)
(* pipeline (UploadFiles, UploadOneFile), Slugify, ReadJSON and            *)
(* PushJSONToRemote.  Each operation has its own specification over the    *)
(* shared variables; the variables an operation does not touch stay at     *)
(* their initial value in its specification.                               *)
(***************************************************************************)
EXTENDS Integers, Sequences, FiniteSets, TLC

VARIABLES
    t,              \* the Tools value the methods are called on
    pc,             \* position of the running UploadFiles / UploadOneFile call
    entry,          \* which method the caller invoked
    req,            \* the parsed request: the file parts in processing order
    renameFile,     \* the rename flag after defaulting
    idx,            \* number of parts whose closure has run
    uploadedFiles,  \* the function-level slice of UploadFiles (line 75)
    ret,            \* what UploadFiles returned: [files, err]
    retOne,         \* what UploadOneFile returned: [file, err], or a panic
    disk,           \* files in uploadDir: name -> [size, part]
    handles,        \* handles opened by the call and not closed yet
    hist,           \* history: per part, what its closure did
    sl,             \* the last Slugify call: [s, slug, err]
    js,             \* the last ReadJSON call
    ps,             \* the running PushJSONToRemote call
    gr              \* goroutines calling methods of t concurrently

vars == <<t, pc, entry, req, renameFile, idx, uploadedFiles, ret, retOne,
          disk, handles, hist, sl, js, ps, gr>>

(***************************************************************************)
(* Bounds of the model.                                                    *)
(***************************************************************************)
MaxParts == 2

\* number of concurrent callers sharing the Tools value
NumCalls == 2

Goroutines == 1..NumCalls

Min(a, b) == IF a < b THEN a ELSE b

Range(s) == {s[i] : i \in 1..Len(s)}

NoErr == "nil"

(***************************************************************************)
(* Tools (tool.go 21-26).                                                  *)
(***************************************************************************)
DefaultMaxFileSize == 1024 * 1024 * 1024

DefaultMaxJSONSize == 1024 * 1024

Tools(mfs, aft, mjs, auf) ==
    [MaxFileSize |-> mfs, AllowedFileTypes |-> aft,
     MaxJSONSize |-> mjs, AllowUnkownFields |-> auf]

ZeroTools == Tools(0, <<>>, 0, FALSE)

(***************************************************************************)
(* RandomString (tool.go 29-41).  rand.Prime(rand.Reader, 64) yields a     *)
(* 64-bit prime p; the character is r[p % 64].  A draw is represented by   *)
(* the residue p % 64, which is odd because p is an odd prime.             *)
(***************************************************************************)
randomStringSource ==
    << "a","b","c","d","e","f","g","h","i","j","k","l","m",
       "n","o","p","q","r","s","t","u","v","w","x","y","z",
       "A","B","C","D","E","F","G","H","I","J","K","L","M",
       "N","O","P","Q","R","S","T","U","V","W","X","Y","Z",
       "0","1","2","3","4","5","6","7","8","9","_","+" >>

PrimeResidues == {x \in 0..(Len(randomStringSource) - 1) : x % 2 = 1}

\* s[i] = r[x % y]; Go indexes from 0, sequences from 1
RandomString(n, draw) ==
    [i \in 1..n |-> randomStringSource[(draw[i] % Len(randomStringSource)) + 1]]

RandomNameLen == 25

\* the draws of the randomness source the model explores: every character of
\* one name comes from the same residue, or the residues alternate
DrawResidues == {x \in PrimeResidues : x <= 3}

Draws(n) ==
    {[i \in 1..n |-> x] : x \in DrawResidues}
        \cup {[i \in 1..n |-> IF i % 2 = 1 THEN 1 ELSE 63]}

(***************************************************************************)
(* filepath.Ext (called at tool.go 135): the suffix starting at the last   *)
(* dot of the name, or the empty string.  A FileHeader's Filename is a     *)
(* base name, so it holds no path separator.                               *)
(***************************************************************************)
RECURSIVE ExtFrom(_, _)
ExtFrom(name, i) ==
    IF i < 1 THEN <<>>
    ELSE IF name[i] = "." THEN SubSeq(name, i, Len(name))
    ELSE ExtFrom(name, i - 1)

Ext(name) == ExtFrom(name, Len(name))

(***************************************************************************)
(* http.DetectContentType on the 512-byte buffer of line 105 after the     *)
(* Read of line 106 put n bytes of the part at its start: the rest of the  *)
(* buffer is zero bytes, which the sniffer counts as binary data.          *)
(***************************************************************************)
SniffLen == 512

PngSigLen == 8

DetectContentType(content, n) ==
    IF content.magic = "png" /\ n >= PngSigLen THEN "image/png"
    ELSE IF n = SniffLen THEN "text/plain; charset=utf-8"
    ELSE "application/octet-stream"

(***************************************************************************)
(* strings.EqualFold over the MIME strings of the model (tool.go 117):     *)
(* image/png, IMAGE/PNG, image/jpg, text/plain; charset=utf-8 and          *)
(* application/octet-stream.                                               *)
(***************************************************************************)
Fold(m) == IF m = "IMAGE/PNG" THEN "image/png" ELSE m

EqualFold(a, b) == Fold(a) = Fold(b)

EqualExact(a, b) == a = b

IsAllowedCaseSensitive(fileType, allowedTypes) ==
    IF Len(allowedTypes) > 0
    THEN \E i \in 1..Len(allowedTypes) : EqualExact(fileType, allowedTypes[i])
    ELSE TRUE

\* tool.go 112-123
IsAllowed(fileType, allowedTypes) ==
    IF Len(allowedTypes) > 0
    THEN \E i \in 1..Len(allowedTypes) : EqualFold(fileType, allowedTypes[i])
    ELSE TRUE

(***************************************************************************)
(* The requests of the model.                                              *)
(***************************************************************************)
FileNames == { <<"a", ".", "p">>, <<"b">> }

Contents ==
    { [magic |-> "none", size |-> 0],
      [magic |-> "png",  size |-> PngSigLen],
      [magic |-> "png",  size |-> SniffLen + 88],
      [magic |-> "none", size |-> 5],
      [magic |-> "none", size |-> SniffLen + 88] }

FileParts == [Filename : FileNames, content : Contents]

RECURSIVE SeqsUpTo(_, _)
SeqsUpTo(S, n) ==
    IF n = 0 THEN {<<>>}
    ELSE LET shorter == SeqsUpTo(S, n - 1)
         IN  shorter \cup {Append(s, x) : s \in {q \in shorter : Len(q) = n - 1}, x \in S}

Requests == SeqsUpTo(FileParts, MaxParts)

\* what the environment can make fail while one part is processed
Faults == {"none", "open", "read", "seek", "create", "copy"}

AllowedTypeLists ==
    { <<>>, <<"image/jpg", "IMAGE/PNG">>, <<"text/plain; charset=utf-8">> }

(***************************************************************************)
(* The closure of tool.go 95-158, run for part hdr (the i-th processed)    *)
(* with the function-level slice outer.  Its result:                       *)
(*   files, err  what the closure returns (nil is the empty sequence)      *)
(*   outer       the function-level uploadedFiles afterwards               *)
(*   disk        the upload directory afterwards                           *)
(*   open        the handles it opened and did not close                   *)
(*   h           history of the run                                        *)
(***************************************************************************)
UploadedFile(new, orig, size) ==
    [NewFileName |-> new, OriginalFileName |-> orig, FileSize |-> size]

NewFileName(rename, filename, draw) ==
    IF rename THEN RandomString(RandomNameLen, draw) \o Ext(filename)
    ELSE filename

History(opened, sniffed, fileType, rejected, createdFile, err) ==
    [opened |-> opened, sniffed |-> sniffed, fileType |-> fileType,
     rejected |-> rejected, created |-> createdFile, err |-> err]

WithFault(h, fault) ==
    [opened |-> h.opened, sniffed |-> h.sniffed, fileType |-> h.fileType,
     rejected |-> h.rejected, created |-> h.created, err |-> h.err, fault |-> fault]

Failed(outer, d, open, h) ==
    [files |-> <<>>, err |-> h.err, outer |-> outer, disk |-> d, open |-> open, h |-> h]

PutFile(d, name, size, i) ==
    [x \in (DOMAIN d) \cup {name} |-> IF x = name THEN [size |-> size, part |-> i] ELSE d[x]]

ProcessPart(hdr, i, outer, param, d, rename, allowedTypes, fault, draw) ==
    LET size     == hdr.content.size
        n        == Min(size, SniffLen)                          \* line 106
        fileType == DetectContentType(hdr.content, n)            \* line 113
        name     == NewFileName(rename, hdr.Filename, draw)       \* 134-138
        inH      == [kind |-> "infile", part |-> i]
        outH     == [kind |-> "outfile", part |-> i]
        pos      == 0                                            \* line 128
    IN
    IF fault = "open"                                            \* 98-102
    THEN Failed(outer, d, {}, History(FALSE, FALSE, "", FALSE, FALSE, "open failed"))
    \* from here on infile is closed by the defer of line 103
    ELSE IF n = 0                                                \* 106-109
    THEN Failed(outer, d, {}, History(TRUE, FALSE, "", FALSE, FALSE, "EOF"))
    ELSE IF fault = "read"
    THEN Failed(outer, d, {}, History(TRUE, FALSE, "", FALSE, FALSE, "read failed"))
    ELSE IF ~IsAllowed(fileType, allowedTypes)                   \* 112-127
    THEN Failed(outer, d, {},
                History(TRUE, TRUE, fileType, TRUE, FALSE,
                        "the uploaded file type is not permitted"))
    ELSE IF fault = "seek"                                       \* 128-132
    THEN Failed(outer, d, {}, History(TRUE, TRUE, fileType, FALSE, FALSE, "seek failed"))
    ELSE IF fault = "create"                                     \* 144-145
    THEN Failed(outer, d, {}, History(TRUE, TRUE, fileType, FALSE, FALSE, "create failed"))
    \* the *os.File of line 144 is a new variable of the if statement; the
    \* defer of line 142 closes the nil outfile of line 141, so outH stays open
    ELSE IF fault = "copy"                                       \* 147-151
    THEN Failed(outer, PutFile(d, name, 0, i), {outH},
                History(TRUE, TRUE, fileType, FALSE, TRUE, "copy failed"))
    ELSE [files |-> param,                                       \* line 156
          err   |-> NoErr,
          outer |-> Append(outer, UploadedFile(name, hdr.Filename, size - pos)),  \* 153-155
          disk  |-> PutFile(d, name, size - pos, i),
          open  |-> {outH},
          h     |-> History(TRUE, TRUE, fileType, FALSE, TRUE, NoErr)]

(***************************************************************************)
(* UploadFiles (tool.go 67-168) and UploadOneFile (tool.go 50-65).         *)
(***************************************************************************)
Pending == [files |-> <<>>, err |-> "pending"]

NoFile == [NewFileName |-> <<>>, OriginalFileName |-> <<>>, FileSize |-> -1]

NoDisk == [x \in {} |-> 0]

Entries == {"UploadFiles", "UploadOneFile"}

\* where control goes when UploadFiles returns
AfterReturn(e) == IF e = "UploadFiles" THEN "done" ELSE "one"

\* what can fail before the loop: os.MkdirAll (81-84), ParseMultipartForm (86-90)
Prologue == {"ok", "mkdir", "parse"}

\* lines 50-58 or 67-90: defaulting of rename and of MaxFileSize, the
\* directory, the parse of the form
Begin ==
    /\ pc = "idle"
    /\ \E e \in Entries, r \in Requests, rn \in BOOLEAN, env \in Prologue :
        /\ entry' = e
        /\ req' = r
        /\ renameFile' = rn
        /\ t' = [t EXCEPT !.MaxFileSize =
                    IF @ = 0 THEN DefaultMaxFileSize ELSE @]       \* 77-79
        /\ IF env = "mkdir"
           THEN /\ ret' = [files |-> <<>>, err |-> "mkdir failed"]
                /\ pc' = AfterReturn(e)
           ELSE IF env = "parse"
           THEN /\ ret' = [files |-> <<>>, err |-> "the uploaded file is too big"]
                /\ pc' = AfterReturn(e)
           ELSE /\ ret' = ret
                /\ pc' = "loop"
    /\ UNCHANGED <<gr, idx, uploadedFiles, retOne, disk, handles, hist, sl, js, ps>>

\* one iteration of the loops of lines 92-163: the closure and the test of
\* its error.  The closure's results are assigned to the uploadedFiles and
\* err declared by := at line 95, which are new variables of the loop body;
\* line 161 returns that uploadedFiles.
Part ==
    /\ pc = "loop"
    /\ idx < Len(req)
    /\ \E fault \in Faults,
          draw \in (IF renameFile THEN Draws(RandomNameLen)
                                  ELSE {[i \in 1..RandomNameLen |-> 1]}) :
        LET res == ProcessPart(req[idx + 1], idx + 1, uploadedFiles, uploadedFiles,
                               disk, renameFile, t.AllowedFileTypes, fault, draw)
        IN  /\ uploadedFiles' = res.outer
            /\ disk' = res.disk
            /\ handles' = handles \cup res.open
            /\ hist' = Append(hist, WithFault(res.h, fault))
            /\ idx' = idx + 1
            /\ IF res.err # NoErr
               THEN /\ ret' = [files |-> res.files, err |-> res.err]   \* 160-162
                    /\ pc' = AfterReturn(entry)
               ELSE /\ ret' = ret
                    /\ pc' = pc
    /\ UNCHANGED <<gr, t, entry, req, renameFile, retOne, sl, js, ps>>

\* line 167
LoopEnd ==
    /\ pc = "loop"
    /\ idx = Len(req)
    /\ ret' = [files |-> uploadedFiles, err |-> NoErr]
    /\ pc' = AfterReturn(entry)
    /\ UNCHANGED <<gr, t, entry, req, renameFile, idx, uploadedFiles, retOne, disk,
                   handles, hist, sl, js, ps>>

\* lines 60-64 of UploadOneFile: files[0] of an empty slice panics
UploadOneFileReturn ==
    /\ pc = "one"
    /\ IF ret.err # NoErr
       THEN /\ retOne' = [file |-> NoFile, err |-> ret.err]
            /\ pc' = "done"
       ELSE IF Len(ret.files) = 0
       THEN /\ retOne' = retOne
            /\ pc' = "panic"
       ELSE /\ retOne' = [file |-> ret.files[1], err |-> NoErr]
            /\ pc' = "done"
    /\ UNCHANGED <<gr, t, entry, req, renameFile, idx, uploadedFiles, ret, disk,
                   handles, hist, sl, js, ps>>

NoSlug == [s |-> <<>>, slug |-> <<>>, err |-> "pending"]

NoJSON == [body |-> <<>>, first |-> "pending", second |-> "pending", limit |-> 0,
           err |-> "pending", arg |-> 0]

NoPush == [pc |-> "idle"]

UploadConfigs ==
    {Tools(mfs, aft, 0, FALSE) : mfs \in {0, 1024}, aft \in AllowedTypeLists}

\* the state before any call, for a Tools value of the set configs
Start(configs) ==
    /\ t \in configs
    /\ pc = "idle"
    /\ entry = "UploadFiles"
    /\ req = <<>>
    /\ renameFile = TRUE
    /\ idx = 0
    /\ uploadedFiles = <<>>
    /\ ret = Pending
    /\ retOne = [file |-> NoFile, err |-> "pending"]
    /\ disk = NoDisk
    /\ handles = {}
    /\ hist = <<>>
    /\ sl = NoSlug
    /\ js = NoJSON
    /\ ps = NoPush
    /\ gr = [g \in Goroutines |-> [op |-> "none", pc |-> "idle", maxMemory |-> -1]]

Init == Start(UploadConfigs)

Next ==
    \/ Begin
    \/ Part
    \/ LoopEnd
    \/ UploadOneFileReturn

Spec == Init /\ [][Next]_vars

(***************************************************************************)
(* Slugify (tool.go 186-202).  A string is a sequence of runes; the runes  *)
(* of the model are named by one-element strings, "HA" for the katakana    *)
(* letter U+30CF and "KELVIN" for the Kelvin sign U+212A, whose lower case *)
(* is the ASCII letter k.                                                  *)
(***************************************************************************)
MaxSlugLen == 4

SlugRunes == {"a", "B", "9", "-", " ", "HA", "KELVIN"}

\* unicode.ToLower, rune by rune (strings.ToLower, line 194)
ToLowerRune(c) ==
    IF c = "B" THEN "b"
    ELSE IF c = "KELVIN" THEN "k"
    ELSE c

ToLower(s) == [i \in 1..Len(s) |-> ToLowerRune(s[i])]

\* the class [a-z\d] of line 192 over the lower-cased runes of the model
InClass(c) == c \in {"a", "b", "k", "9"}

RECURSIVE ReplaceEachFrom(_, _, _)
ReplaceEachFrom(s, i, repl) ==
    IF i > Len(s) THEN <<>>
    ELSE IF InClass(s[i]) THEN <<s[i]>> \o ReplaceEachFrom(s, i + 1, repl)
    ELSE repl \o ReplaceEachFrom(s, i + 1, repl)

\* the expression without its +: every rune outside the class is replaced
ReplaceEach(s, repl) == ReplaceEachFrom(s, 1, repl)

\* re.ReplaceAllString for `[^a-z\d]+`: the leftmost-longest matches are the
\* maximal runs of runes outside the class
RECURSIVE ReplaceFrom(_, _, _, _)
ReplaceFrom(s, i, inMatch, repl) ==
    IF i > Len(s) THEN <<>>
    ELSE IF InClass(s[i]) THEN <<s[i]>> \o ReplaceFrom(s, i + 1, FALSE, repl)
    ELSE IF inMatch THEN ReplaceFrom(s, i + 1, TRUE, repl)
    ELSE repl \o ReplaceFrom(s, i + 1, TRUE, repl)

ReplaceAllString(s, repl) == ReplaceFrom(s, 1, FALSE, repl)

RECURSIVE TrimLeft(_, _)
TrimLeft(s, c) ==
    IF Len(s) > 0 /\ s[1] = c THEN TrimLeft(Tail(s), c) ELSE s

RECURSIVE TrimRight(_, _)
TrimRight(s, c) ==
    IF Len(s) > 0 /\ s[Len(s)] = c THEN TrimRight(SubSeq(s, 1, Len(s) - 1), c) ELSE s

\* strings.Trim with a one-rune cutset
Trim(s, c) == TrimRight(TrimLeft(s, c), c)

Slugify(s) ==
    IF Len(s) = 0
    THEN [slug |-> <<>>, err |-> "empty string"]
    ELSE LET slug == Trim(ReplaceAllString(ToLower(s), <<"-">>), "-")
         IN  IF Len(slug) = 0
             THEN [slug |-> <<>>, err |-> "after removing character, slug is zero leng"]
             ELSE [slug |-> slug, err |-> NoErr]

SlugifyCall ==
    /\ sl.err = "pending"
    /\ \E s \in SeqsUpTo(SlugRunes, MaxSlugLen) :
          LET r == Slugify(s)
          IN  sl' = [s |-> s, slug |-> r.slug, err |-> r.err]
    /\ UNCHANGED <<gr, t, pc, entry, req, renameFile, idx, uploadedFiles, ret, retOne,
                   disk, handles, hist, js, ps>>

NextSlug == SlugifyCall

InitSlug == Start({ZeroTools})

SpecSlug == InitSlug /\ [][NextSlug]_vars

\* the positions of the class runes of s, in increasing order
ClassPositions(s) ==
    SelectSeq([i \in 1..Len(s) |-> i], LAMBDA i : InClass(s[i]))

ClassRunes(s) == SelectSeq(s, InClass)

\* C8: Slugify fails with "empty string" on the empty string; on a non-empty
\* s it fails, with the zero-length error, exactly when the lower-cased s has
\* no rune of [a-z0-9]; otherwise the slug is non-empty, holds only runes of
\* [a-z0-9] and "-", neither starts nor ends with "-", has no two adjacent
\* "-", keeps the [a-z0-9] runes of the lower-cased s in order, and has a
\* "-" between two of them exactly when a run of other runes separated them.
C8_Slugify ==
    sl.err # "pending" =>
        LET low   == ToLower(sl.s)
            slug  == sl.slug
            posL  == ClassPositions(low)
            posS  == ClassPositions(slug)
        IN  /\ Len(sl.s) = 0 => sl.err = "empty string"
            /\ Len(sl.s) > 0 =>
                  /\ sl.err \in {NoErr, "after removing character, slug is zero leng"}
                  /\ sl.err # NoErr <=> \A i \in 1..Len(low) :
                        low[i] \notin {"a", "b", "k", "9"}
            /\ sl.err # NoErr => slug = <<>>
            /\ sl.err = NoErr =>
                  /\ Len(slug) > 0
                  /\ \A i \in 1..Len(slug) : slug[i] \in {"a", "b", "k", "9", "-"}
                  /\ slug[1] # "-"
                  /\ slug[Len(slug)] # "-"
                  /\ \A i \in 1..(Len(slug) - 1) : ~(slug[i] = "-" /\ slug[i + 1] = "-")
                  /\ ClassRunes(slug) = ClassRunes(low)
                  /\ \A j \in 1..(Len(posL) - 1) :
                        (posL[j + 1] = posL[j] + 1) <=> (posS[j + 1] = posS[j] + 1)

\* an upper-case letter, a run of two runes outside the class in the middle
\* and one at the end: " B- a-" style inputs
C8_Witness ==
    /\ sl.err = NoErr
    /\ sl.s = <<"B", "HA", "-", "a">>
    /\ sl.slug = <<"b", "-", "a">>

C8_WitnessKelvin ==
    /\ sl.s = <<"KELVIN">>
    /\ sl.slug = <<"k">>

(***************************************************************************)
(* ReadJSON (tool.go 223-277).  A body is a sequence of bytes over         *)
(*     {  }  "  :  a  1  space                                             *)
(* The target of the call is a struct with one string field whose JSON     *)
(* name is a (the decodedJSON of tool_test.go 332-334 with foo for a).     *)
(* json.Decoder is modelled by its scanner (the step functions over these  *)
(* bytes), its readValue loop and the unmarshalling of the value found.    *)
(***************************************************************************)
MaxLex == 5

Quote == "\""

\* the bodies of the model are concatenations of at most MaxLex of these
Lexemes ==
    { <<"{">>, <<"}">>, <<Quote, "a", Quote>>, <<Quote, Quote>>, <<":">>, <<"1">>, <<" ">> }

RECURSIVE Flatten(_)
Flatten(ss) == IF Len(ss) = 0 THEN <<>> ELSE Head(ss) \o Flatten(Tail(ss))

Bodies == {Flatten(ls) : ls \in SeqsUpTo(Lexemes, MaxLex)}

JSONLimits == {0, 2, 5}

JSONConfigs == {Tools(0, <<>>, mjs, auf) : mjs \in JSONLimits, auf \in BOOLEAN}

\* lines 225-229 with the limit never applied: the default whatever is set
DefaultLimitOnly(tools) == DefaultMaxJSONSize

\* lines 225-229
MaxBytes(tools) ==
    IF tools.MaxJSONSize # 0 THEN tools.MaxJSONSize ELSE DefaultMaxJSONSize

\* http.MaxBytesReader (line 231): what the decoder can read of the body, and
\* the error its reads end with
Readable(body, maxBytes) == SubSeq(body, 1, Min(Len(body), maxBytes))

ReadEnd(body, maxBytes) == IF Len(body) > maxBytes THEN "tooLarge" ELSE "EOF"

\* one step of the scanner of encoding/json in state step with the parse
\* stack st on byte c: the scan code, the next state, the next stack
Scanned(op, step, st) == [op |-> op, step |-> step, st |-> st]

Pop(st) == SubSeq(st, 1, Len(st) - 1)

SetTop(st, x) == Append(Pop(st), x)

stateEndValue(st, c) ==
    IF Len(st) = 0 THEN Scanned("End", "EndTop", st)
    ELSE IF c = " " THEN Scanned("SkipSpace", "EndValue", st)
    ELSE IF st[Len(st)] = "key"
    THEN IF c = ":" THEN Scanned("ObjectKey", "BeginValue", SetTop(st, "value"))
         ELSE Scanned("Error", "Error", st)
    ELSE IF c = "}"
         THEN Scanned("EndObject", IF Len(st) = 1 THEN "EndTop" ELSE "EndValue", Pop(st))
         ELSE Scanned("Error", "Error", st)

stateBeginString(st, c) ==
    IF c = " " THEN Scanned("SkipSpace", "BeginString", st)
    ELSE IF c = Quote THEN Scanned("BeginLiteral", "InString", st)
    ELSE Scanned("Error", "Error", st)

ScanStep(step, st, c) ==
    CASE step = "BeginValue" ->
            IF c = " " THEN Scanned("SkipSpace", "BeginValue", st)
            ELSE IF c = "{" THEN Scanned("BeginObject", "BeginStringOrEmpty", Append(st, "key"))
            ELSE IF c = Quote THEN Scanned("BeginLiteral", "InString", st)
            ELSE IF c = "1" THEN Scanned("BeginLiteral", "Number", st)
            ELSE Scanned("Error", "Error", st)
      [] step = "BeginStringOrEmpty" ->
            IF c = " " THEN Scanned("SkipSpace", "BeginStringOrEmpty", st)
            ELSE IF c = "}" THEN stateEndValue(SetTop(st, "value"), c)
            ELSE stateBeginString(st, c)
      [] step = "BeginString" -> stateBeginString(st, c)
      [] step = "InString" ->
            IF c = Quote THEN Scanned("Continue", "EndValue", st)
            ELSE Scanned("Continue", "InString", st)
      [] step = "Number" ->
            IF c = "1" THEN Scanned("Continue", "Number", st)
            ELSE stateEndValue(st, c)
      [] step = "EndValue" -> stateEndValue(st, c)
      [] OTHER -> Scanned("End", "EndTop", st)

AllSpace(buf, from) == \A i \in from..Len(buf) : buf[i] = " "

\* Decoder.readValue on the readable bytes buf from position from, the reads
\* ending with readEnd: the value found (its last position) or the error
RECURSIVE ReadValueFrom(_, _, _, _, _, _)
ReadValueFrom(buf, from, i, step, st, readEnd) ==
    IF i > Len(buf)
    THEN \* the buffer is scanned before the error of the last read is looked at
         IF readEnd = "EOF"
         THEN IF ScanStep(step, st, " ").op = "End"
              THEN [err |-> NoErr, last |-> Len(buf), at |-> 0]
              ELSE IF ~AllSpace(buf, from)
              THEN [err |-> "unexpectedEOF", last |-> Len(buf), at |-> 0]
              ELSE [err |-> "EOF", last |-> Len(buf), at |-> 0]
         ELSE [err |-> readEnd, last |-> Len(buf), at |-> 0]
    ELSE LET s == ScanStep(step, st, buf[i])
         IN  IF s.op = "End" THEN [err |-> NoErr, last |-> i - 1, at |-> 0]
             ELSE IF s.op = "EndObject" /\ Len(s.st) = 0
             THEN [err |-> NoErr, last |-> i, at |-> 0]
             ELSE IF s.op = "Error" THEN [err |-> "syntax", last |-> i, at |-> i]
             ELSE ReadValueFrom(buf, from, i + 1, s.step, s.st, readEnd)

ReadValue(buf, from, readEnd) == ReadValueFrom(buf, from, from, "BeginValue", <<>>, readEnd)

\* the first position at or after i that holds c / that holds no space
RECURSIVE Find(_, _, _)
Find(v, i, c) == IF i > Len(v) \/ v[i] = c THEN i ELSE Find(v, i + 1, c)

RECURSIVE SkipSpace(_, _)
SkipSpace(v, i) == IF i > Len(v) \/ v[i] # " " THEN i ELSE SkipSpace(v, i + 1)

\* d.unmarshal of the scanned value v into the target: shape "Foo" is the
\* struct with the string field a, shape "none" the struct{} of line 269
Unmarshal(v, shape, disallowUnknown) ==
    LET b == SkipSpace(v, 1)
    IN  IF v[b] # "{" THEN "type"
        ELSE LET k1 == SkipSpace(v, b + 1)
             IN  IF v[k1] = "}" THEN NoErr
                 ELSE LET k2    == Find(v, k1 + 1, Quote)
                          key   == SubSeq(v, k1 + 1, k2 - 1)
                          colon == SkipSpace(v, k2 + 1)
                          val   == SkipSpace(v, colon + 1)
                      IN  IF shape = "Foo" /\ key = <<"a">>
                          THEN IF v[val] = Quote THEN NoErr ELSE "type"
                          ELSE IF disallowUnknown THEN "unknown" ELSE NoErr

\* Decoder.Decode (lines 238 and 269): the error, and where the next starts
Decode(buf, from, readEnd, shape, disallowUnknown) ==
    LET r == ReadValue(buf, from, readEnd)
    IN  IF r.err # NoErr THEN [err |-> r.err, next |-> from, at |-> r.at]
        ELSE [err  |-> Unmarshal(SubSeq(buf, from, r.last), shape, disallowUnknown),
              next |-> r.last + 1,
              at   |-> 0]

\* line 271 with the test of the error reversed: a second value is refused,
\* anything else that ends the second Decode is taken for the end
SecondValueOnly(second) == second # NoErr

\* line 271
NotEndOfStream(second) == second # "EOF"

\* lines 240-267: the error ReadJSON returns for the error of the first Decode
Classify(first, at, maxBytes) ==
    CASE first = "syntax"        -> [err |-> "body contains badly-formed JSON (at character %d)", arg |-> at]
      [] first = "unexpectedEOF" -> [err |-> "body contains badly-formed JSON", arg |-> 0]
      [] first = "type"          -> [err |-> "body contains incorrect JSON type", arg |-> 0]
      [] first = "EOF"           -> [err |-> "body must not be empty", arg |-> 0]
      [] first = "tooLarge"      -> [err |-> "body must not be larger than %d bytes", arg |-> maxBytes]
      [] OTHER                   -> [err |-> "json: unknown field", arg |-> 0]

ReadJSON(tools, body) ==
    LET maxBytes == MaxBytes(tools)
        buf      == Readable(body, maxBytes)
        readEnd  == ReadEnd(body, maxBytes)
        d1       == Decode(buf, 1, readEnd, "Foo", ~tools.AllowUnkownFields)
        d2       == Decode(buf, d1.next, readEnd, "none", ~tools.AllowUnkownFields)
    IN  IF d1.err # NoErr
        THEN [body |-> body, first |-> d1.err, second |-> "pending", limit |-> maxBytes]
                @@ Classify(d1.err, d1.at, maxBytes)
        ELSE IF NotEndOfStream(d2.err)
        THEN [body |-> body, first |-> NoErr, second |-> d2.err, limit |-> maxBytes,
              err |-> "body must contain only one JSON value", arg |-> 0]
        ELSE [body |-> body, first |-> NoErr, second |-> d2.err, limit |-> maxBytes,
              err |-> NoErr, arg |-> 0]

ReadJSONCall ==
    /\ js.err = "pending"
    /\ \E body \in Bodies : js' = ReadJSON(t, body)
    /\ UNCHANGED <<gr, t, pc, entry, req, renameFile, idx, uploadedFiles, ret, retOne,
                   disk, handles, hist, sl, ps>>

InitJSON == Start(JSONConfigs)

NextJSON == ReadJSONCall

SpecJSON == InitJSON /\ [][NextJSON]_vars

(***************************************************************************)
(* The JSON grammar over the bytes of the model, stated on its own (not    *)
(* through the scanner), for the claims about ReadJSON.                    *)
(***************************************************************************)
IsSpaces(s) == \A i \in 1..Len(s) : s[i] = " "

Strip(s) == TrimRight(TrimLeft(s, " "), " ")

IsNumber(s) == Len(s) >= 1 /\ \A i \in 1..Len(s) : s[i] = "1"

IsString(s) ==
    /\ Len(s) >= 2
    /\ s[1] = Quote
    /\ s[Len(s)] = Quote
    /\ \A i \in 2..(Len(s) - 1) : s[i] # Quote

\* a string whose closing quote has not come
OpenString(s) == Len(s) >= 1 /\ s[1] = Quote /\ \A i \in 2..Len(s) : s[i] # Quote

RECURSIVE IsValue(_)
RECURSIVE IsObject(_)

\* the text between the braces of an object: nothing, or one "key": value
IsMembers(m) ==
    LET x == Strip(m)
    IN  \/ x = <<>>
        \/ \E k \in 2..Len(x) :
             /\ IsString(SubSeq(x, 1, k))
             /\ LET r == TrimLeft(SubSeq(x, k + 1, Len(x)), " ")
                IN  /\ Len(r) >= 1
                    /\ r[1] = ":"
                    /\ IsValue(TrimLeft(Tail(r), " "))

IsObject(s) ==
    /\ Len(s) >= 2
    /\ s[1] = "{"
    /\ s[Len(s)] = "}"
    /\ IsMembers(SubSeq(s, 2, Len(s) - 1))

IsValue(s) == IsNumber(s) \/ IsString(s) \/ IsObject(s)

\* an object whose closing brace has not come
RECURSIVE OpenObject(_)
OpenObject(s) ==
    /\ Len(s) >= 1
    /\ s[1] = "{"
    /\ LET m == TrimLeft(Tail(s), " ")
       IN  \/ m = <<>>
           \/ OpenString(m)
           \/ \E k \in 2..Len(m) :
                /\ IsString(SubSeq(m, 1, k))
                /\ LET r == TrimLeft(SubSeq(m, k + 1, Len(m)), " ")
                   IN  \/ r = <<>>
                       \/ /\ r[1] = ":"
                          /\ LET v == TrimLeft(Tail(r), " ")
                             IN  \/ v = <<>>
                                 \/ OpenString(v)
                                 \/ OpenObject(v)
                                 \/ \E j \in 1..Len(v) :
                                      /\ IsValue(SubSeq(v, 1, j))
                                      /\ IsSpaces(SubSeq(v, j + 1, Len(v)))

\* bytes that end before the first value does, or with a top-level number or
\* string that a later byte could still follow: no syntax error in them, and
\* nothing in them tells that the first value is over
EndsInsideFirstValue(data) ==
    LET s == TrimLeft(data, " ")
    IN  s = <<>> \/ IsNumber(s) \/ OpenString(s) \/ IsString(s) \/ OpenObject(s)

\* one object that decodes into the target: no member, the member a with a
\* string value, or another member when unknown fields are allowed
DecodesIntoTarget(v, allowUnknown) ==
    /\ IsObject(v)
    /\ LET x == Strip(SubSeq(v, 2, Len(v) - 1))
       IN  \/ x = <<>>
           \/ \E k \in 2..Len(x) :
                /\ IsString(SubSeq(x, 1, k))
                /\ LET val == TrimLeft(Tail(TrimLeft(SubSeq(x, k + 1, Len(x)), " ")), " ")
                   IN  IF SubSeq(x, 1, k) = <<Quote, "a", Quote>>
                       THEN IsString(val)
                       ELSE allowUnknown

(***************************************************************************)
(* Claims about ReadJSON, checked under SpecJSON.                          *)
(***************************************************************************)
JSONCalled == js.err # "pending"

TooLarge == "body must not be larger than %d bytes"

\* the limit in force: MaxJSONSize, or 1 MiB when it is 0
EffectiveLimit == IF t.MaxJSONSize = 0 THEN 1048576 ELSE t.MaxJSONSize

\* C6 as stated: every body longer than the effective limit, whatever its
\* content, fails with the "must not be larger than <limit> bytes" error, and
\* a body within the limit never does.
C6_TooLargeWhateverContent ==
    JSONCalled =>
        /\ Len(js.body) > EffectiveLimit => (js.err = TooLarge /\ js.arg = EffectiveLimit)
        /\ Len(js.body) <= EffectiveLimit => js.err # TooLarge

\* C6 as amended: every body longer than the effective limit fails; it fails
\* with the "must not be larger than <limit> bytes" error, carrying the
\* effective limit, exactly when the decoder reaches the limit before it has
\* found a syntax error or the end of the first value (the end of a top-level
\* number or string is found at the byte after it); a body within the limit
\* never produces that error.
C6_SizeLimit ==
    JSONCalled =>
        /\ js.limit = EffectiveLimit
        /\ Len(js.body) > EffectiveLimit =>
             /\ js.err # NoErr
             /\ js.err = TooLarge <=>
                  EndsInsideFirstValue(SubSeq(js.body, 1, EffectiveLimit))
        /\ js.err = TooLarge => js.arg = EffectiveLimit
        /\ Len(js.body) <= EffectiveLimit => js.err # TooLarge

\* the body { "a" of 4 bytes under a limit of 2: the limit is reached inside
\* the first value
C6_Witness ==
    /\ js.err = TooLarge
    /\ js.arg = 2
    /\ Len(js.body) = 4
    /\ js.body[1] = "{"

\* an oversize body that fails with another error: the first value ends
\* within the limit
C6_WitnessOther ==
    /\ JSONCalled
    /\ Len(js.body) > EffectiveLimit
    /\ js.err = "body must contain only one JSON value"

\* C7: ReadJSON returns nil only for a body, within the limit, that is one
\* object decoding into the target with nothing but white space around it;
\* and when the first value decoded and the second Decode ended with anything
\* but end-of-stream, it returns "body must contain only one JSON value".
C7_ExactlyOneDocument ==
    JSONCalled =>
        /\ js.err = NoErr =>
             /\ Len(js.body) <= EffectiveLimit
             /\ DecodesIntoTarget(Strip(js.body), t.AllowUnkownFields)
        /\ (js.first = NoErr /\ js.second # "EOF") =>
             js.err = "body must contain only one JSON value"
        /\ js.err = "body must contain only one JSON value" =>
             \E k \in 1..Len(js.body) :
                /\ DecodesIntoTarget(Strip(SubSeq(js.body, 1, k)), t.AllowUnkownFields)
                /\ (~IsSpaces(SubSeq(js.body, k + 1, Len(js.body)))
                      \/ Len(js.body) > EffectiveLimit)

\* the converse: every such body is accepted
C7_AcceptsEveryDocument ==
    (/\ JSONCalled
     /\ Len(js.body) <= EffectiveLimit
     /\ DecodesIntoTarget(Strip(js.body), t.AllowUnkownFields))
        => js.err = NoErr

\* two objects in one body, refused
C7_Witness ==
    /\ js.err = "body must contain only one JSON value"
    /\ js.body = <<"{", "}", "{", "}">>
    /\ js.second = NoErr

\* one object with its member, accepted
C7_WitnessAccepted ==
    /\ js.err = NoErr
    /\ js.body = <<"{", Quote, "a", Quote, ":", Quote, "a", Quote, "}">>

(***************************************************************************)
(* PushJSONToRemote (tool.go 321-358), statement by statement.  The inputs *)
(* are whether data can be marshalled, whether the url makes a request,    *)
(* whether the caller passed a client, and what the round trip gives.      *)
(***************************************************************************)
StatusCodes == {200, 201, 400, 404, 500}

\* what httpClient.Do gives: an error, or a response with a status code
RoundTrips ==
    {[failed |-> TRUE, StatusCode |-> 0]}
        \cup {[failed |-> FALSE, StatusCode |-> c] : c \in StatusCodes}

NoResponse == [StatusCode |-> 0, body |-> "none"]

PushInputs ==
    [marshals : BOOLEAN, urlOK : BOOLEAN, client : {"default", "given"},
     roundTrip : RoundTrips]

PushState(at, in, attempts, response, result) ==
    [pc |-> at, in |-> in, attempts |-> attempts, response |-> response, result |-> result]

PushResult(response, code, err) == [response |-> response, code |-> code, err |-> err]

NoResult == PushResult(NoResponse, 0, "pending")

\* the function with the defer of line 353 left out
LeftOpen(response) == response

\* line 353, run when the function returns: response.Body.Close()
DeferredClose(response) == [response EXCEPT !.body = "closed"]

PushCall ==
    /\ ps.pc = "idle"
    /\ \E in \in PushInputs : ps' = PushState("marshal", in, 0, NoResponse, NoResult)
    /\ UNCHANGED <<gr, t, pc, entry, req, renameFile, idx, uploadedFiles, ret, retOne,
                   disk, handles, hist, sl, js>>

\* lines 324-328
PushMarshal ==
    /\ ps.pc = "marshal"
    /\ ps' = IF ps.in.marshals
             THEN [ps EXCEPT !.pc = "request"]
             ELSE [ps EXCEPT !.pc = "returned",
                             !.result = PushResult(NoResponse, 0, "json: unsupported type")]
    /\ UNCHANGED <<gr, t, pc, entry, req, renameFile, idx, uploadedFiles, ret, retOne,
                   disk, handles, hist, sl, js>>

\* lines 331-344
PushNewRequest ==
    /\ ps.pc = "request"
    /\ ps' = IF ps.in.urlOK
             THEN [ps EXCEPT !.pc = "do"]
             ELSE [ps EXCEPT !.pc = "returned",
                             !.result = PushResult(NoResponse, 0, "invalid url")]
    /\ UNCHANGED <<gr, t, pc, entry, req, renameFile, idx, uploadedFiles, ret, retOne,
                   disk, handles, hist, sl, js>>

\* lines 347-353
PushDo ==
    /\ ps.pc = "do"
    /\ ps' = IF ps.in.roundTrip.failed
             THEN [ps EXCEPT !.pc = "returned",
                             !.attempts = @ + 1,
                             !.result = PushResult(NoResponse, 0, "round trip failed")]
             ELSE [ps EXCEPT !.pc = "deferred",
                             !.attempts = @ + 1,
                             !.response = [StatusCode |-> ps.in.roundTrip.StatusCode, body |-> "open"]]
    /\ UNCHANGED <<gr, t, pc, entry, req, renameFile, idx, uploadedFiles, ret, retOne,
                   disk, handles, hist, sl, js>>

\* line 356 and the deferred call: the caller gets the response the defer closed
PushReturn ==
    /\ ps.pc = "deferred"
    /\ LET closed == DeferredClose(ps.response)
       IN  ps' = [ps EXCEPT !.pc = "returned",
                            !.response = closed,
                            !.result = PushResult(closed, closed.StatusCode, NoErr)]
    /\ UNCHANGED <<gr, t, pc, entry, req, renameFile, idx, uploadedFiles, ret, retOne,
                   disk, handles, hist, sl, js>>

InitPush == Start({ZeroTools})

NextPush ==
    \/ PushCall
    \/ PushMarshal
    \/ PushNewRequest
    \/ PushDo
    \/ PushReturn

SpecPush == InitPush /\ [][NextPush]_vars

(***************************************************************************)
(* Claims about PushJSONToRemote, checked under SpecPush.                  *)
(***************************************************************************)
\* C10: on a successful call the response handed to the caller has its body
\* closed already and the status code beside it; on a marshalling, request or
\* transport error the call returns (nil, 0, err); the request is sent at
\* most once.
C10_BodyClosedOnReturn ==
    /\ ps.pc # "idle" => ps.attempts <= 1
    /\ ps.pc = "returned" =>
         /\ ps.result.err = NoErr =>
              /\ ps.in.marshals /\ ps.in.urlOK /\ ~ps.in.roundTrip.failed
              /\ ps.result.response.body = "closed"
              /\ ps.result.response.StatusCode = ps.in.roundTrip.StatusCode
              /\ ps.result.code = ps.in.roundTrip.StatusCode
              /\ ps.attempts = 1
         /\ ps.result.err # NoErr =>
              /\ ps.result.response = NoResponse
              /\ ps.result.code = 0
              /\ ~(ps.in.marshals /\ ps.in.urlOK /\ ~ps.in.roundTrip.failed)
         /\ ps.result.err # "pending"

\* a successful call through the caller's client, returned
C10_Witness ==
    /\ ps.pc = "returned"
    /\ ps.result.err = NoErr
    /\ ps.result.code = 200
    /\ ps.in.client = "given"

\* a transport error, returned after one attempt
C10_WitnessError ==
    /\ ps.pc = "returned"
    /\ ps.result.err = "round trip failed"
    /\ ps.attempts = 1

(***************************************************************************)
(* Concurrent callers of one Tools value: the accesses UploadFiles and     *)
(* ReadJSON make to its fields, one step per access, interleaved.          *)
(*   UploadFiles  line 77 reads MaxFileSize, line 78 writes it when it was *)
(*                0, line 86 reads it, line 115 reads AllowedFileTypes     *)
(*   ReadJSON     line 227 reads MaxJSONSize, line 235 AllowUnkownFields   *)
(***************************************************************************)
At(g, op, line) == gr[g].op = op /\ gr[g].pc = line

Goto(g, line) == gr' = [gr EXCEPT ![g].pc = line]

GoCall ==
    /\ \E g \in Goroutines, op \in {"UploadFiles", "ReadJSON"} :
         /\ gr[g].pc = "idle"
         /\ gr' = [gr EXCEPT ![g] = [op |-> op,
                                     pc |-> IF op = "UploadFiles" THEN "l77" ELSE "l227",
                                     maxMemory |-> -1]]
    /\ UNCHANGED <<t, pc, entry, req, renameFile, idx, uploadedFiles, ret, retOne,
                   disk, handles, hist, sl, js, ps>>

\* line 77
GoUploadCheck ==
    /\ \E g \in Goroutines :
         /\ At(g, "UploadFiles", "l77")
         /\ Goto(g, IF t.MaxFileSize = 0 THEN "l78" ELSE "l86")
    /\ UNCHANGED <<t, pc, entry, req, renameFile, idx, uploadedFiles, ret, retOne,
                   disk, handles, hist, sl, js, ps>>

\* line 78
GoUploadDefault ==
    /\ \E g \in Goroutines :
         /\ At(g, "UploadFiles", "l78")
         /\ t' = [t EXCEPT !.MaxFileSize = DefaultMaxFileSize]
         /\ Goto(g, "l86")
    /\ UNCHANGED <<pc, entry, req, renameFile, idx, uploadedFiles, ret, retOne,
                   disk, handles, hist, sl, js, ps>>

\* line 86
GoUploadParse ==
    /\ \E g \in Goroutines :
         /\ At(g, "UploadFiles", "l86")
         /\ gr' = [gr EXCEPT ![g].pc = "l115", ![g].maxMemory = t.MaxFileSize]
    /\ UNCHANGED <<t, pc, entry, req, renameFile, idx, uploadedFiles, ret, retOne,
                   disk, handles, hist, sl, js, ps>>

\* line 115
GoUploadTypes ==
    /\ \E g \in Goroutines :
         /\ At(g, "UploadFiles", "l115")
         /\ Goto(g, "done")
    /\ UNCHANGED <<t, pc, entry, req, renameFile, idx, uploadedFiles, ret, retOne,
                   disk, handles, hist, sl, js, ps>>

\* lines 227-229
GoJSONLimit ==
    /\ \E g \in Goroutines :
         /\ At(g, "ReadJSON", "l227")
         /\ gr' = [gr EXCEPT ![g].pc = "l235", ![g].maxMemory = MaxBytes(t)]
    /\ UNCHANGED <<t, pc, entry, req, renameFile, idx, uploadedFiles, ret, retOne,
                   disk, handles, hist, sl, js, ps>>

\* line 235
GoJSONUnknown ==
    /\ \E g \in Goroutines :
         /\ At(g, "ReadJSON", "l235")
         /\ Goto(g, "done")
    /\ UNCHANGED <<t, pc, entry, req, renameFile, idx, uploadedFiles, ret, retOne,
                   disk, handles, hist, sl, js, ps>>

InitConc == Start(UploadConfigs)

NextConc ==
    \/ GoCall
    \/ GoUploadCheck
    \/ GoUploadDefault
    \/ GoUploadParse
    \/ GoUploadTypes
    \/ GoJSONLimit
    \/ GoJSONUnknown

SpecConc == InitConc /\ [][NextConc]_vars

\* the field goroutine g is about to access, and whether it writes it
NextAccess(g) ==
    CASE gr[g].pc = "l77"  -> [field |-> "MaxFileSize", write |-> FALSE]
      [] gr[g].pc = "l78"  -> [field |-> "MaxFileSize", write |-> TRUE]
      [] gr[g].pc = "l86"  -> [field |-> "MaxFileSize", write |-> FALSE]
      [] gr[g].pc = "l115" -> [field |-> "AllowedFileTypes", write |-> FALSE]
      [] gr[g].pc = "l227" -> [field |-> "MaxJSONSize", write |-> FALSE]
      [] gr[g].pc = "l235" -> [field |-> "AllowUnkownFields", write |-> FALSE]
      [] OTHER             -> [field |-> "none", write |-> FALSE]

\* C5: no operation writes a field of the Tools value, so with no writer but
\* the operations themselves, two concurrent calls never have a write to a
\* field pending together with another access to the same field.
C5_NoConfigRace ==
    \A g, h \in Goroutines :
        g # h => ~(/\ NextAccess(g).write
                   /\ NextAccess(h).field = NextAccess(g).field)

(***************************************************************************)
(* Claims about the upload pipeline, checked under Spec.                   *)
(***************************************************************************)
Returned == ret.err # "pending"

\* the prologue succeeded and the environment made no step of any part fail
NoFaults == \A k \in 1..Len(hist) : hist[k].fault = "none"

\* the type a part is sniffed as: line 113 on the buffer of lines 105-106
SniffedType(part) == DetectContentType(part.content, Min(part.content.size, SniffLen))

MatchesNone(fileType, allowedTypes) ==
    \A i \in 1..Len(allowedTypes) : Fold(allowedTypes[i]) # Fold(fileType)

\* C1: when the k-th processed part is the first to fail, UploadFiles returns
\* a non-nil error together with the records of parts 1..k-1, the records
\* accumulated before the failing part.
C1_PartialResultOnFailure ==
    (Returned /\ Len(hist) >= 1 /\ hist[Len(hist)].err # NoErr)
        => /\ ret.err # NoErr
           /\ ret.files = uploadedFiles
           /\ Len(ret.files) = Len(hist) - 1
           /\ \A j \in 1..(Len(hist) - 1) :
                 ret.files[j].OriginalFileName = req[j].Filename

\* C2: when every part passes the type check (or no allow-list is set) and
\* nothing fails in the environment, UploadFiles returns nil and one record
\* per part, for parts of any length: the named file is in the directory,
\* FileSize is the part's byte count, OriginalFileName the part's name, and
\* NewFileName the original name (rename false) or 25 characters of the
\* alphabet followed by the original extension (rename true).
C2_UploadSucceeds ==
    (/\ Returned
     /\ ret.err \notin {"mkdir failed", "the uploaded file is too big"}
     /\ NoFaults
     /\ \A i \in 1..Len(req) : IsAllowed(SniffedType(req[i]), t.AllowedFileTypes))
        => /\ ret.err = NoErr
           /\ Len(ret.files) = Len(req)
           /\ \A i \in 1..Len(req) :
                LET f == ret.files[i]
                IN  /\ f.NewFileName \in DOMAIN disk
                    /\ f.FileSize = req[i].content.size
                    /\ f.OriginalFileName = req[i].Filename
                    /\ IF renameFile
                       THEN /\ Len(f.NewFileName) = RandomNameLen + Len(Ext(req[i].Filename))
                            /\ \A j \in 1..RandomNameLen :
                                  f.NewFileName[j] \in Range(randomStringSource)
                            /\ SubSeq(f.NewFileName, RandomNameLen + 1, Len(f.NewFileName))
                                  = Ext(req[i].Filename)
                       ELSE f.NewFileName = req[i].Filename

\* The same with the zero-length parts left out: the statement of C2 fails
\* on nothing else.
C2_NonEmptyPartsSucceed ==
    (\A i \in 1..Len(req) : req[i].content.size > 0) => C2_UploadSucceeds

\* C3: a sniffed part whose type equals no entry of a non-empty allow-list,
\* letter case ignored, is rejected with the "not permitted" error, is the
\* last part processed, and neither it nor a later part has a file created
\* for it; a part is rejected for its type in no other case, so never under
\* an empty allow-list.
C3_AllowListRejection ==
    /\ \A k \in 1..Len(hist) :
          hist[k].sniffed =>
            /\ hist[k].rejected <=>
                  (/\ Len(t.AllowedFileTypes) > 0
                   /\ MatchesNone(hist[k].fileType, t.AllowedFileTypes))
            /\ hist[k].rejected =>
                  /\ ret.err = "the uploaded file type is not permitted"
                  /\ pc # "loop"
                  /\ k = Len(hist)
                  /\ ~hist[k].created
                  /\ \A x \in DOMAIN disk : disk[x].part < k
    /\ \A k \in 1..Len(hist) : hist[k].rejected => hist[k].sniffed
    /\ Len(t.AllowedFileTypes) = 0 => \A k \in 1..Len(hist) : ~hist[k].rejected

\* a second part is rejected after a first one was written, under an
\* allow-list whose entry differs from the first part's type in case only
C3_Witness ==
    /\ pc = "done"
    /\ Len(hist) = 2
    /\ hist[2].rejected
    /\ hist[1].created
    /\ hist[1].fileType = "image/png"
    /\ "image/png" \notin Range(t.AllowedFileTypes)
    /\ Cardinality(DOMAIN disk) = 1

\* C4: UploadOneFile returns the first record with a nil error, or no record
\* with an error; it never indexes an empty result.
C4_UploadOneFileNeverPanics ==
    /\ pc # "panic"
    /\ (entry = "UploadOneFile" /\ pc = "done") =>
          \/ retOne.err = NoErr /\ retOne.file # NoFile
          \/ retOne.err # NoErr /\ retOne.file = NoFile

\* The first half of C5 for a single call: no step of UploadFiles or
\* UploadOneFile changes the Tools value.
C5_ConfigReadOnly == [][t' = t]_vars

\* C9: when UploadFiles has returned, every part stream it opened and every
\* destination file it created has been closed.
C9_HandlesReleased == Returned => handles = {}

====
